---- MODULE Spec2Model ----
(***************************************************************************)
(* A model of babel (src/babel.py): the sqlite store of papers, tags and   *)
(* paper-tag associations, the dashboard (BabelApp) handlers that change   *)
(* it, the command-line functions of the same module, and the listing      *)
(* query of load_table.                                                    *)
(*                                                                         *)
(* Text is modelled as a sequence of one-character strings, so that        *)
(* strip, split, LIKE, the regular expressions and the text ordering of    *)
(* ORDER BY are computed and not assumed.                                  *)
(***************************************************************************)
EXTENDS Integers, Sequences, FiniteSets, TLC

(***************************************************************************)
(* Characters and text.                                                    *)
(***************************************************************************)

\* printable ASCII, code 32 .. 126, in code order (code 96, the grave accent,
\* is a placeholder: the lexer does not accept it in a string)
Ascii ==
    << " ", "!", "\"", "#", "$", "%", "&", "'", "(", ")", "*", "+", ",", "-", ".", "/",
       "0", "1", "2", "3", "4", "5", "6", "7", "8", "9", ":", ";", "<", "=", ">", "?",
       "@", "A", "B", "C", "D", "E", "F", "G", "H", "I", "J", "K", "L", "M", "N", "O",
       "P", "Q", "R", "S", "T", "U", "V", "W", "X", "Y", "Z", "[", "\\", "]", "^", "_",
       "grave", "a", "b", "c", "d", "e", "f", "g", "h", "i", "j", "k", "l", "m", "n", "o",
       "p", "q", "r", "s", "t", "u", "v", "w", "x", "y", "z", "{", "|", "}", "~" >>

\* the code of each character (ord)
CodeOf == [c \in {Ascii[i] : i \in 1..Len(Ascii)} |-> 31 + (CHOOSE i \in 1..Len(Ascii) : Ascii[i] = c)]

CharCode(c) == CodeOf[c]

CharOf(n) == Ascii[n - 31]

IsDigit(c) == CharCode(c) \in 48..57

IsUpper(c) == CharCode(c) \in 65..90

IsLower(c) == CharCode(c) \in 97..122

\* the class \w of the re module on str
IsWord(c) == IsDigit(c) \/ IsUpper(c) \/ IsLower(c) \/ c = "_"

IsSpace(c) == c = " "

LowerChar(c) == IF IsUpper(c) THEN CharOf(CharCode(c) + 32) ELSE c

LowerStr(s) == [i \in 1..Len(s) |-> LowerChar(s[i])]

\* the characters s[a..b] (empty when a > b)
Slice(s, a, b) == IF a > b THEN << >> ELSE SubSeq(s, a, b)

StartsWith(s, p) == Len(p) <= Len(s) /\ Slice(s, 1, Len(p)) = p

EndsWith(s, p) == Len(p) <= Len(s) /\ Slice(s, Len(s) - Len(p) + 1, Len(s)) = p

\* positions at which p occurs in s
Occurrences(s, p) == {i \in 1..(Len(s) - Len(p) + 1) : Slice(s, i, i + Len(p) - 1) = p}

RECURSIVE LStrip(_)
LStrip(s) == IF s # << >> /\ IsSpace(s[1]) THEN LStrip(Tail(s)) ELSE s

RECURSIVE RStrip(_)
RStrip(s) == IF s # << >> /\ IsSpace(s[Len(s)]) THEN RStrip(SubSeq(s, 1, Len(s) - 1)) ELSE s

\* str.strip()
Strip(s) == RStrip(LStrip(s))

RECURSIVE SplitBy(_, _)
\* str.split(sep) for a non-empty separator: the sequence of fields
SplitBy(s, sep) ==
    LET occ == Occurrences(s, sep)
    IN  IF occ = {} THEN << s >>
        ELSE LET i == CHOOSE k \in occ : \A j \in occ : k <= j
             IN  << Slice(s, 1, i - 1) >> \o SplitBy(Slice(s, i + Len(sep), Len(s)), sep)

RECURSIVE SplitWords(_)
\* str.split() without a separator: the runs of non-space characters
SplitWords(s) ==
    LET t == Strip(s)
        sp == {i \in 1..Len(t) : IsSpace(t[i])}
    IN  IF t = << >> THEN << >>
        ELSE IF sp = {} THEN << t >>
        ELSE LET i == CHOOSE k \in sp : \A j \in sp : k <= j
             IN  << Slice(t, 1, i - 1) >> \o SplitWords(Slice(t, i + 1, Len(t)))

RECURSIVE JoinBy(_, _)
\* sep.join(parts)
JoinBy(parts, sep) ==
    IF parts = << >> THEN << >>
    ELSE IF Len(parts) = 1 THEN parts[1]
    ELSE parts[1] \o sep \o JoinBy(Tail(parts), sep)

RECURSIVE FilterNonEmpty(_)
FilterNonEmpty(parts) ==
    IF parts = << >> THEN << >>
    ELSE IF parts[1] = << >> THEN FilterNonEmpty(Tail(parts))
    ELSE << parts[1] >> \o FilterNonEmpty(Tail(parts))

\* comparison of TEXT values under sqlite's BINARY collation
RECURSIVE TextLess(_, _)
TextLess(a, b) ==
    IF b = << >> THEN FALSE
    ELSE IF a = << >> THEN TRUE
    ELSE IF a[1] = b[1] THEN TextLess(Tail(a), Tail(b))
    ELSE CharCode(a[1]) < CharCode(b[1])

\* sqlite's LIKE: % any run, _ any one character, ASCII letters without case
RECURSIVE LikeMatch(_, _)
LikeMatch(pat, s) ==
    IF pat = << >> THEN s = << >>
    ELSE IF pat[1] = "%"
         THEN LikeMatch(Tail(pat), s) \/ (s # << >> /\ LikeMatch(pat, Tail(s)))
    ELSE IF s = << >> THEN FALSE
    ELSE IF pat[1] = "_" \/ LowerChar(pat[1]) = LowerChar(s[1])
         THEN LikeMatch(Tail(pat), Tail(s))
    ELSE FALSE

\* the parameter f'%{q}%'
Wrapped(q) == << "%" >> \o q \o << "%" >>

\* the decimal digits of a natural number, at least width of them
RECURSIVE DigitsOf(_, _)
DigitsOf(n, width) ==
    IF n < 10 /\ width <= 1 THEN << CharOf(48 + n) >>
    ELSE DigitsOf(n \div 10, width - 1) \o << CharOf(48 + (n % 10)) >>

\* entry.published.strftime('%Y-%m-%d')
FormatDate(d) == DigitsOf(d.y, 4) \o << "-" >> \o DigitsOf(d.m, 2) \o << "-" >> \o DigitsOf(d.d, 2)

(***************************************************************************)
(* The identifier normalizers and the identifier patterns.                 *)
(***************************************************************************)

UrlAbs == << "a", "r", "x", "i", "v", ".", "o", "r", "g", "/", "a", "b", "s", "/" >>

UrlPdf == << "a", "r", "x", "i", "v", ".", "o", "r", "g", "/", "p", "d", "f", "/" >>

DotPdf == << ".", "p", "d", "f" >>

\* the smallest element of a non-empty set of integers
MinOf(S) == CHOOSE i \in S : \A j \in S : i <= j

MaxOf(S) == CHOOSE i \in S : \A j \in S : j <= i

\* extract_arxiv_id (module level):
\*   re.search(r'arxiv\.org/(?:abs|pdf)/([^/]+)', s), group 1, else s.strip()
extract_arxiv_id(s) ==
    LET hits == {i \in Occurrences(s, UrlAbs) \cup Occurrences(s, UrlPdf) :
                    i + 14 <= Len(s) /\ s[i + 14] # "/"}
    IN  IF hits = {} THEN Strip(s)
        ELSE LET from == MinOf(hits) + 14
                 stops == {k \in from..Len(s) : s[k] = "/"}
                 to == IF stops = {} THEN Len(s) ELSE MinOf(stops) - 1
             IN  SubSeq(s, from, to)

\* \b at position p of s (between s[p-1] and s[p])
WordBoundary(s, p) ==
    LET before == p > 1 /\ IsWord(s[p - 1])
        after == p <= Len(s) /\ IsWord(s[p])
    IN  before # after

\* ARXIV_REGEX = r'\b([\w-]+\/[\w\.]+?)(\.pdf)?$': the positions at which a
\* match can start.  [\w-]+ stops at a slash and [\w\.]+?(\.pdf)?$ runs to the
\* end of the text without a slash, so the slash is the last one of s.
ArxivRegexStarts(s) ==
    LET slashes == {k \in 1..Len(s) : s[k] = "/"}
        q == MaxOf(slashes)
    IN  IF slashes = {} THEN {}
        ELSE IF q = Len(s) \/ \E k \in (q + 1)..Len(s) : ~(IsWord(s[k]) \/ s[k] = ".") THEN {}
        ELSE {p \in 1..(q - 1) :
                 /\ WordBoundary(s, p)
                 /\ \A k \in p..(q - 1) : IsWord(s[k]) \/ s[k] = "-"}

\* re.match(ARXIV_REGEX, s) is not None
ArxivRegexMatch(s) == 1 \in ArxivRegexStarts(s)

\* BabelApp.extract_arxiv_id: re.search(ARXIV_REGEX, s), group 1, else
\* s.strip().  Group 1 is lazy: it leaves a final ".pdf" to group 2 when
\* something remains before it after the slash.
AppExtractArxivId(s) ==
    LET starts == ArxivRegexStarts(s)
    IN  IF starts = {} THEN Strip(s)
        ELSE LET p == MinOf(starts)
                 q == MaxOf({k \in 1..Len(s) : s[k] = "/"})
                 cut == EndsWith(s, DotPdf) /\ Len(s) - q > 4
             IN  SubSeq(s, p, IF cut THEN Len(s) - 4 ELSE Len(s))

\* re.match(r'\d{4}\.\d{4,5}(v\d+)?', aid) of the command-line add_paper:
\* a prefix match, the optional parts match the empty text
CliLooksLikeId(aid) ==
    /\ Len(aid) >= 9
    /\ \A k \in 1..4 : IsDigit(aid[k])
    /\ aid[5] = "."
    /\ \A k \in 6..9 : IsDigit(aid[k])

(***************************************************************************)
(* The remote repository (the arxiv client): a fixed catalogue.            *)
(***************************************************************************)

\* Python's None, where a text is expected
None == << "None" >>

\* truth of a value used as a condition: None and the empty text are false
Truthy(x) == x # None /\ x # << >>

\* the entries the remote repository holds, in the order a search lists them;
\* short_id is entry.get_short_id(), which carries the version
Catalog ==
    << [short_id |-> << "2", "3", "0", "1", ".", "0", "0", "0", "0", "1", "v", "2" >>,
        title |-> << "A", " ", "S", "t", "u", "d", "y" >>,
        published |-> [y |-> 2023, m |-> 1, d |-> 1],
        authors |-> << << "A", "n", "n", " ", "L", "e", "e" >>, << "B", "o", " ", "L", "i" >> >>],
       [short_id |-> << "h", "e", "p", "-", "t", "h", "/", "9", "9", "0", "1", "0", "0", "1", "v", "1" >>,
        title |-> << "B", " ", "S", "t", "u", "d", "y" >>,
        published |-> [y |-> 1999, m |-> 1, d |-> 5],
        authors |-> << << "C", "y", " ", "N", "g" >> >>] >>

\* the identifier without its version suffix v<digits>
BaseId(sid) ==
    LET vs == {i \in 1..(Len(sid) - 1) :
                  sid[i] = "v" /\ \A k \in (i + 1)..Len(sid) : IsDigit(sid[k])}
    IN  IF vs = {} THEN sid ELSE SubSeq(sid, 1, MinOf(vs) - 1)

\* an identifier without version names the current version
IdHit(e, aid) == e.short_id = aid \/ BaseId(e.short_id) = aid

\* the title contains q, letters compared without case
TitleHit(e, q) == q # << >> /\ LikeMatch(Wrapped(q), e.title)

RECURSIVE LookupIn(_, _)
LookupIn(entries, aid) ==
    IF entries = << >> THEN << >>
    ELSE (IF IdHit(entries[1], aid) THEN << entries[1] >> ELSE << >>)
         \o LookupIn(Tail(entries), aid)

RECURSIVE TitleSearchIn(_, _)
TitleSearchIn(entries, q) ==
    IF entries = << >> THEN << >>
    ELSE (IF TitleHit(entries[1], q) THEN << entries[1] >> ELSE << >>)
         \o TitleSearchIn(Tail(entries), q)

\* list(client.results(arxiv.Search(id_list=[aid])))
LookupById(aid) == LookupIn(Catalog, aid)

max_results == 5

\* list(client.results(arxiv.Search(query=f'ti:{q}', max_results=5)))
SearchByTitle(q) ==
    LET all == TitleSearchIn(Catalog, q)
    IN  IF Len(all) > max_results THEN SubSeq(all, 1, max_results) ELSE all

(***************************************************************************)
(* The store: the three tables of init_db and the statements run on them.  *)
(***************************************************************************)

\* the rowid sqlite gives a new row of an INTEGER PRIMARY KEY table
NextRowId(rows) == IF rows = {} THEN 1 ELSE MaxOf({r.id : r \in rows}) + 1

\* the text of the authors column
AuthorsText(e) == JoinBy(e.authors, << ",", " " >>)

\* InsertPaper with the UNIQUE constraint on arxiv_id left out
InsertPaper_NoUnique(ps, e) ==
    [ok |-> TRUE,
     rows |-> ps \cup {[id |-> NextRowId(ps),
                        arxiv_id |-> e.short_id,
                        title |-> e.title,
                        published |-> FormatDate(e.published),
                        authors |-> AuthorsText(e)]}]

\* INSERT INTO papers (...) VALUES (...): arxiv_id is UNIQUE, a second row
\* with the same arxiv_id raises sqlite3.IntegrityError and inserts nothing
InsertPaper(ps, e) ==
    IF \E r \in ps : r.arxiv_id = e.short_id
    THEN [ok |-> FALSE, rows |-> ps]
    ELSE [ok |-> TRUE,
          rows |-> ps \cup {[id |-> NextRowId(ps),
                             arxiv_id |-> e.short_id,
                             title |-> e.title,
                             published |-> FormatDate(e.published),
                             authors |-> AuthorsText(e)]}]

\* BabelApp.get_paper_id_from_arxiv_id: the row id, or -1
get_paper_id_from_arxiv_id(ps, aid) ==
    IF \E r \in ps : r.arxiv_id = aid
    THEN (CHOOSE r \in ps : r.arxiv_id = aid).id
    ELSE -1

\* [t.strip() for t in tags.split(',') if t.strip()]
TagNames(text) ==
    LET parts == SplitBy(text, << "," >>)
    IN  FilterNonEmpty([i \in 1..Len(parts) |-> Strip(parts[i])])

\* InsertTag as a plain INSERT into a table without UNIQUE(name)
InsertTag_NoIgnore(tg, name) == tg \cup {[id |-> NextRowId(tg), name |-> name]}

\* INSERT OR IGNORE INTO tags (name) VALUES (?): name is UNIQUE
InsertTag(tg, name) ==
    IF \E t \in tg : t.name = name THEN tg
    ELSE tg \cup {[id |-> NextRowId(tg), name |-> name]}

\* INSERT OR IGNORE INTO paper_tags (paper_id, tag_id): the pair is UNIQUE
InsertPaperTag(pt, pid, tid) == pt \cup {[paper_id |-> pid, tag_id |-> tid]}

RECURSIVE AddTagsLoop(_, _, _, _)
\* the loop of add_tags over the tag names, on the tables tg and pt
AddTagsLoop(names, tg, pt, pid) ==
    IF names = << >> THEN [tags |-> tg, paper_tags |-> pt]
    ELSE LET tg1 == InsertTag(tg, names[1])
             tid == (CHOOSE t \in tg1 : t.name = names[1]).id
         IN  AddTagsLoop(Tail(names), tg1, InsertPaperTag(pt, pid, tid), pid)

\* DELETE FROM paper_tags WHERE paper_id=?
DeletePaperTags(pt, pid) == {a \in pt : a.paper_id # pid}

\* DELETE FROM papers WHERE arxiv_id=?
DeletePaperByArxivId(ps, aid) == {r \in ps : r.arxiv_id # aid}

\* DELETE FROM papers WHERE id=?
DeletePaperById(ps, pid) == {r \in ps : r.id # pid}

(***************************************************************************)
(* load_table: the listing query and the rows of the DataTable.            *)
(***************************************************************************)

CommaSpace == << ",", " " >>

\* the orders in which the elements of a finite set can be visited
Perms(S) == {f \in [1..Cardinality(S) -> S] : \A x \in S : \E i \in DOMAIN f : f[i] = x}

\* the rows papers LEFT JOIN paper_tags LEFT JOIN tags yields for one paper:
\* the id and name of each of its tags, or one row of NULLs when it has none
JoinedRows(p, tg, pt) ==
    LET mine == {a \in pt : a.paper_id = p.id}
    IN  IF mine = {} THEN {[tag_id |-> 0, name |-> None]}
        ELSE {[tag_id |-> a.tag_id,
               name |-> IF \E t \in tg : t.id = a.tag_id
                        THEN (CHOOSE t \in tg : t.id = a.tag_id).name
                        ELSE None] : a \in mine}

\* where.append("t.name = ?"): equality of TEXT, exact in every character
TagCondition(name, ft) == name # None /\ name = ft

\* where.append("(p.title LIKE ? OR p.authors LIKE ?)") with q = f"%{query}%"
QueryCondition(p, fq) == LikeMatch(Wrapped(fq), p.title) \/ LikeMatch(Wrapped(fq), p.authors)

\* the WHERE clause: the conditions present are joined by AND
RowPasses(p, name, fq, ft) ==
    /\ Truthy(ft) => TagCondition(name, ft)
    /\ Truthy(fq) => QueryCondition(p, fq)

\* ORDER BY p.published DESC, on the stored text; equal keys in any order
PublishedDesc(o) == \A i, j \in DOMAIN o : i < j => ~TextLess(o[i].published, o[j].published)

RECURSIVE NamesByTagId(_)
\* the names of a set of joined rows, by ascending tag_id
NamesByTagId(rows) ==
    IF rows = {} THEN << >>
    ELSE LET r == CHOOSE x \in rows : \A y \in rows : x.tag_id <= y.tag_id
         IN  << r.name >> \o NamesByTagId(rows \ {r})

\* GROUP_CONCAT(t.name, ', ') over the rows of a group that passed WHERE.
\* NULL names are skipped.  SQL leaves the order of concatenation open;
\* sqlite reads the rows of a paper through the index of
\* UNIQUE(paper_id, tag_id), which yields them by ascending tag_id.
GroupConcat(rows) == JoinBy(NamesByTagId({r \in rows : r.name # None}), CommaSpace)

\* names = [n.strip() for n in authors.split(", ")] if authors else []
\* last5 = [n.split()[-1] for n in names[:5]];  ", ".join(last5)
DispAuth(authors) ==
    LET parts == IF authors = << >> THEN << >> ELSE SplitBy(authors, CommaSpace)
        first5 == IF Len(parts) > 5 THEN SubSeq(parts, 1, 5) ELSE parts
        LastWord(n) == LET w == SplitWords(n) IN w[Len(w)]
    IN  JoinBy([i \in 1..Len(first5) |-> LastWord(first5[i])], CommaSpace)

\* the tables load_table can show for a store and the two filters (more
\* than one only when two papers have the same published text)
LoadTables(ps, tg, pt, fq, ft) ==
    LET Passing(p) == {r \in JoinedRows(p, tg, pt) : RowPasses(p, r.name, fq, ft)}
        sel == {p \in ps : Passing(p) # {}}
    IN  {[i \in 1..Len(o) |-> [aid |-> o[i].arxiv_id,
                               title |-> o[i].title,
                               authors |-> DispAuth(o[i].authors),
                               tags |-> GroupConcat(Passing(o[i]))]] :
            o \in {o \in Perms(sel) : PublishedDesc(o)}}

\* get_current_tags: GROUP_CONCAT over the tags of the paper, '' when none
CurrentTags(ps, tg, pt, aid) ==
    GroupConcat({[tag_id |-> t.id, name |-> t.name] :
                    t \in {t \in tg : \E a \in pt, p \in ps :
                              a.tag_id = t.id /\ a.paper_id = p.id /\ p.arxiv_id = aid}})

(***************************************************************************)
(* The methods of BabelApp that change the store, as functions of it.      *)
(***************************************************************************)

\* add_paper_internal(aid): the papers table after it, its return code, the
\* message it logs, the remote calls it makes and whether it mounts the tag
\* prompt
add_paper_internal(ps, aid) ==
    IF \E r \in ps : r.arxiv_id = aid
    THEN [papers |-> ps, ret |-> 3, msg |-> "AlreadyExists", calls |-> << >>, mounts |-> FALSE]
    ELSE LET found == LookupById(aid)
         IN  IF found = << >>
             THEN [papers |-> ps, ret |-> 2, msg |-> "NotFound", calls |-> << "id" >>, mounts |-> FALSE]
             ELSE LET ins == InsertPaper(ps, found[1])
                  IN  IF ins.ok
                      THEN [papers |-> ins.rows, ret |-> 0, msg |-> "Added",
                            calls |-> << "id" >>, mounts |-> TRUE]
                      ELSE [papers |-> ps, ret |-> 3, msg |-> "AlreadyExists",
                            calls |-> << "id" >>, mounts |-> FALSE]

\* add_tags without its test of pid: the tags are created and associated
\* with the paper id -1
add_tags_NoTest(ps, tg, pt, aid, text) ==
    LET pid == get_paper_id_from_arxiv_id(ps, aid)
        r == AddTagsLoop(TagNames(text), tg, pt, pid)
    IN  [tags |-> r.tags, paper_tags |-> r.paper_tags,
         msg |-> IF pid = -1 THEN "NoSuchPaper" ELSE "TagsAdded", reloads |-> pid # -1]

\* add_tags(aid, tags): the tags and paper_tags tables after it
add_tags(ps, tg, pt, aid, text) ==
    LET pid == get_paper_id_from_arxiv_id(ps, aid)
    IN  IF pid = -1
        THEN [tags |-> tg, paper_tags |-> pt, msg |-> "NoSuchPaper", reloads |-> FALSE]
        ELSE LET r == AddTagsLoop(TagNames(text), tg, pt, pid)
             IN  [tags |-> r.tags, paper_tags |-> r.paper_tags, msg |-> "TagsAdded", reloads |-> TRUE]

\* set_tags without its DELETE: the new tags are merged into the old ones
set_tags_Merge(ps, tg, pt, aid, text) == add_tags(ps, tg, pt, aid, text)

\* set_tags(aid, tags)
set_tags(ps, tg, pt, aid, text) ==
    LET pid == get_paper_id_from_arxiv_id(ps, aid)
    IN  IF pid = -1
        THEN [tags |-> tg, paper_tags |-> pt, msg |-> "NoSuchPaper", reloads |-> FALSE]
        ELSE add_tags(ps, tg, DeletePaperTags(pt, pid), aid, text)

\* remove_paper without its first DELETE: the associations stay
app_remove_paper_KeepTags(ps, pt, aid) ==
    [papers |-> DeletePaperByArxivId(ps, aid), paper_tags |-> pt]

\* BabelApp.remove_paper(aid):
\*   DELETE FROM paper_tags WHERE paper_id=(SELECT id FROM papers WHERE arxiv_id=?)
\*   DELETE FROM papers WHERE arxiv_id=?
app_remove_paper(ps, pt, aid) ==
    LET pid == get_paper_id_from_arxiv_id(ps, aid)
    IN  [papers |-> DeletePaperByArxivId(ps, aid),
         paper_tags |-> IF pid = -1 THEN pt ELSE DeletePaperTags(pt, pid)]

(***************************************************************************)
(* The command-line helpers.                                               *)
(***************************************************************************)

RECURSIVE DigitsValue(_)
DigitsValue(ds) == IF ds = << >> THEN 0 ELSE 10 * DigitsValue(SubSeq(ds, 1, Len(ds) - 1)) + (CharCode(ds[Len(ds)]) - 48)

\* int(choice): blanks around, an optional sign, decimal digits; anything
\* else raises ValueError (ok is FALSE)
ParseInt(text) ==
    LET t == Strip(text)
        signed == t # << >> /\ t[1] \in {"+", "-"}
        ds == IF signed THEN Tail(t) ELSE t
    IN  IF ds # << >> /\ \A k \in 1..Len(ds) : IsDigit(ds[k])
        THEN [ok |-> TRUE, val |-> IF signed /\ t[1] = "-" THEN 0 - DigitsValue(ds) ELSE DigitsValue(ds)]
        ELSE [ok |-> FALSE, val |-> 0]

\* choose_from_results: the index of the entry returned, 0 for None
choose_from_results(results, choice) ==
    LET i == ParseInt(choice)
    IN  IF ~i.ok THEN 0
        ELSE IF i.val < 1 \/ i.val > Len(results) THEN 0
        ELSE i.val

\* confirm in ('y', 'yes') after strip().lower()
SaysYes(text) == LowerStr(Strip(text)) \in {<< "y" >>, << "y", "e", "s" >>}

\* the short identifiers of a sequence of entries
ShortIds(entries) == [i \in 1..Len(entries) |-> entries[i].short_id]

\* BabelApp.add_paper(user_inp): the papers table after it, the return code
\* of add_paper_internal when it ran (2 for the flow's own not-found, -1
\* otherwise), the remote calls, the candidates of the title search, the
\* items of the list it mounts and the identifier of the tag prompt it opens
add_paper(ps, user_inp) ==
    LET aid == AppExtractArxivId(user_inp)
    IN  IF ~ArxivRegexMatch(user_inp)
        THEN LET byTitle == SearchByTitle(aid)
                 byId == LookupById(aid)
             IN  IF byTitle = << >>
                 THEN IF byId = << >>
                      THEN [papers |-> ps, aid |-> aid, ret |-> 2, msg |-> "NotFound",
                            calls |-> << "title", "id" >>, cands |-> << >>,
                            list |-> << >>, tagger |-> None]
                      ELSE IF Len(byId) = 1
                      THEN LET api == add_paper_internal(ps, byId[1].short_id)
                           IN  [papers |-> api.papers, aid |-> aid, ret |-> api.ret, msg |-> api.msg,
                                calls |-> << "title", "id" >> \o api.calls, cands |-> << >>,
                                list |-> << >>,
                                tagger |-> IF api.mounts THEN byId[1].short_id ELSE None]
                      ELSE [papers |-> ps, aid |-> aid, ret |-> -1, msg |-> "Choose",
                            calls |-> << "title", "id" >>, cands |-> << >>,
                            list |-> ShortIds(byId), tagger |-> None]
                 ELSE [papers |-> ps, aid |-> aid, ret |-> -1, msg |-> "Choose",
                       calls |-> << "title" >>, cands |-> ShortIds(byTitle),
                       list |-> ShortIds(byTitle), tagger |-> None]
        ELSE LET api == add_paper_internal(ps, aid)
             IN  [papers |-> api.papers, aid |-> aid, ret |-> api.ret, msg |-> api.msg,
                  calls |-> api.calls, cands |-> << >>, list |-> << >>,
                  tagger |-> IF api.mounts THEN aid ELSE None]

\* add_paper(arg) of the command line: the remote calls, the candidates,
\* the index of the entry it ends with (0 when it returns early) and its
\* message.  The statements that would insert the entry are commented out
\* in the source (lines 116-147): the function ends once it has the entry.
cli_add_paper(arg, choice) ==
    LET aid == extract_arxiv_id(arg)
    IN  IF ~CliLooksLikeId(aid)
        THEN LET results == SearchByTitle(arg)
                 k == choose_from_results(results, choice)
             IN  IF results = << >>
                 THEN [aid |-> aid, calls |-> << "title" >>, cands |-> << >>, pick |-> 0,
                       entry |-> None, msg |-> "NotFound"]
                 ELSE IF k = 0
                 THEN [aid |-> aid, calls |-> << "title" >>, cands |-> ShortIds(results), pick |-> 0,
                       entry |-> None, msg |-> "Cancelled"]
                 ELSE [aid |-> aid, calls |-> << "title" >>, cands |-> ShortIds(results), pick |-> k,
                       entry |-> results[k].short_id, msg |-> "Chosen"]
        ELSE LET found == LookupById(aid)
             IN  IF found = << >>
                 THEN [aid |-> aid, calls |-> << "id" >>, cands |-> << >>, pick |-> 0,
                       entry |-> None, msg |-> "NotFound"]
                 ELSE [aid |-> aid, calls |-> << "id" >>, cands |-> << >>, pick |-> 0,
                       entry |-> found[1].short_id, msg |-> "Chosen"]

\* SELECT ... FROM papers WHERE title LIKE ? AND ... of remove_paper(arg)
TitleMatches(ps, arg) ==
    LET terms == SplitWords(arg)
    IN  {r \in ps : \A i \in 1..Len(terms) : LikeMatch(Wrapped(terms[i]), r.title)}

\* remove_paper(arg) of the command line, for one order of the result rows:
\* the row id it deletes, 0 when it returns before the DELETE statements
cli_remove_pick(results, choice, confirm) ==
    LET i == ParseInt(choice)
        k == IF Len(results) = 1 THEN 1
             ELSE IF ~i.ok \/ i.val < 1 \/ i.val > Len(results) THEN 0
             ELSE i.val
    IN  IF results = << >> \/ k = 0 \/ ~SaysYes(confirm) THEN 0 ELSE results[k].id

\* search_tag(tag): the rows of papers JOIN paper_tags JOIN tags that pass
\* WHERE t.name LIKE '%tag%', one row for each association that passes
search_tag(ps, tg, pt, tag) ==
    {[id |-> x[1].id, arxiv_id |-> x[1].arxiv_id, tag_id |-> x[2].id] :
        x \in {x \in ps \X tg : /\ [paper_id |-> x[1].id, tag_id |-> x[2].id] \in pt
                                /\ LikeMatch(Wrapped(tag), x[2].name)}}

(***************************************************************************)
(* The state.                                                              *)
(***************************************************************************)

VARIABLES
    papers,          \* table papers: rows [id, arxiv_id, title, published, authors]
    tags,            \* table tags: rows [id, name]
    paper_tags,      \* table paper_tags: rows [paper_id, tag_id]
    running,         \* the dashboard is running (between on_mount and quit)
    filter_query,    \* BabelApp.filter_query
    filter_tag,      \* BabelApp.filter_tag
    table,           \* the rows of the DataTable "papers"
    search_results,  \* the arxiv_id of each item of the mounted ListView
    prompt,          \* the mounted Input: its id, its arxiv_id, its value
    last             \* the handler that ran last, what it was given and reported

vars == << papers, tags, paper_tags, running, filter_query, filter_tag, table,
           search_results, prompt, last >>

store == << papers, tags, paper_tags >>

(***************************************************************************)
(* Bounds and the inputs the user can give.                                *)
(***************************************************************************)

\* largest row id of papers the model reaches
MaxPaperId == 2

\* what is typed at the prompt of action_add_paper or given to -a
AddInputs ==
    { << "2", "3", "0", "1", ".", "0", "0", "0", "0", "1" >>,
      << "h", "e", "p", "-", "t", "h", "/", "9", "9", "0", "1", "0", "0", "1" >>,
      << "S", "t", "u", "d", "y" >>,
      << "A", " ", "S", "t", "u", "d", "y" >>,
      << "x", "y", "z" >>,
      << "h", "t", "t", "p", "s", ":", "/", "/", "a", "r", "x", "i", "v", ".", "o", "r", "g",
         "/", "a", "b", "s", "/", "2", "3", "0", "1", ".", "0", "0", "0", "0", "1", "v", "2" >> }

\* what is typed at a tag prompt
TagInputs ==
    { << "a", ",", "b" >>,
      << "b", ",", "a" >>,
      << "A" >>,
      << " ", "a", " ", ",", ",", "a" >>,
      << "," >>,
      << >> }

\* what is typed at a confirmation
ConfirmInputs == { << "y" >>, << " ", "Y", "e", "s" >>, << "n" >> }

\* what is typed at "Select paper [1-n] or 0 to cancel"
ChoiceInputs == { << "1" >>, << " ", "2" >>, << "3" >>, << "0" >>, << "x" >>, << "-", "1" >> }

\* the title keywords given to -rm
RemoveInputs == { << "S", "t", "u", "d", "y" >>, << "a", " ", "s", "t", "u" >>, << "z", "z", "z" >> }

\* the values given to filter_tag and to -st, and to filter_query
TagFilters == { << "a" >> }

TextFilters == { << "l", "e", "e" >> }

NoPrompt == [id |-> "none", arxiv_id |-> None, value |-> << >>]

Idle == running /\ prompt = NoPrompt /\ search_results = << >>

\* the row ids of papers stay within the bound
WithinBounds(ps) == \A r \in ps : r.id <= MaxPaperId

\* what a handler leaves in last: aid is the identifier, or the tag of -st,
\* it worked on; cands the candidates, the rows or the text it was given
Report(op, aid, ret, msg, calls, cands, pick) ==
    [op |-> op, aid |-> aid, ret |-> ret, msg |-> msg, calls |-> calls, cands |-> cands, pick |-> pick]

(***************************************************************************)
(* Init: babel.db after init_db on a new file, the dashboard not started.  *)
(***************************************************************************)

Init ==
    /\ papers = {}
    /\ tags = {}
    /\ paper_tags = {}
    /\ running = FALSE
    /\ filter_query = None
    /\ filter_tag = None
    /\ table = << >>
    /\ search_results = << >>
    /\ prompt = NoPrompt
    /\ last = Report("init", None, -1, "", << >>, << >>, 0)

(***************************************************************************)
(* The dashboard.  One widget asks for input at a time: a handler that     *)
(* mounts an Input or a ListView runs when none is mounted.                *)
(***************************************************************************)

\* BabelApp.on_mount
on_mount ==
    /\ ~running
    /\ running' = TRUE
    /\ filter_query' = None
    /\ filter_tag' = None
    /\ table' \in LoadTables(papers, tags, paper_tags, None, None)
    /\ search_results' = << >>
    /\ prompt' = NoPrompt
    /\ last' = Report("on_mount", None, -1, "", << >>, << >>, 0)
    /\ UNCHANGED store

\* the binding "q": the application ends, its widgets and attributes with it
action_quit ==
    /\ running
    /\ running' = FALSE
    /\ filter_query' = None
    /\ filter_tag' = None
    /\ table' = << >>
    /\ search_results' = << >>
    /\ prompt' = NoPrompt
    /\ last' = Report("quit", None, -1, "", << >>, << >>, 0)
    /\ UNCHANGED store

\* BabelApp.action_add_paper
action_add_paper ==
    /\ Idle
    /\ prompt' = [id |-> "add", arxiv_id |-> None, value |-> << >>]
    /\ last' = Report("action_add_paper", None, -1, "", << >>, << >>, 0)
    /\ UNCHANGED << store, running, filter_query, filter_tag, table, search_results >>

\* on_input_submitted, the last branch: add_paper(link), then load_table
SubmitAdd(v) ==
    /\ running
    /\ prompt.id = "add"
    /\ LET r == add_paper(papers, Strip(v))
       IN  /\ WithinBounds(r.papers)
           /\ papers' = r.papers
           /\ search_results' = r.list
           /\ prompt' = IF r.tagger = None THEN NoPrompt
                        ELSE [id |-> "tag_input", arxiv_id |-> r.tagger, value |-> << >>]
           /\ table' \in LoadTables(r.papers, tags, paper_tags, filter_query, filter_tag)
           /\ last' = Report("add_paper", r.aid, r.ret, r.msg, r.calls, r.cands, 0)
    /\ UNCHANGED << tags, paper_tags, running, filter_query, filter_tag >>

\* BabelApp.on_list_view_selected: the k-th item of the list is chosen
on_list_view_selected(k) ==
    /\ running
    /\ k \in 1..Len(search_results)
    /\ LET aid == search_results[k]
           api == add_paper_internal(papers, aid)
       IN  /\ WithinBounds(api.papers)
           /\ papers' = api.papers
           /\ search_results' = << >>
           /\ prompt' = IF api.mounts THEN [id |-> "tag_input", arxiv_id |-> aid, value |-> << >>]
                        ELSE prompt
           /\ table' \in IF api.ret = 0
                         THEN LoadTables(api.papers, tags, paper_tags, filter_query, filter_tag)
                         ELSE {table}
           /\ last' = Report("list_selected", aid, api.ret, api.msg, api.calls, search_results, k)
    /\ UNCHANGED << tags, paper_tags, running, filter_query, filter_tag >>

\* on_input_submitted, id "tag_input": add_tags unless the value is blank
SubmitTagInput(v) ==
    /\ running
    /\ prompt.id = "tag_input"
    /\ LET text == Strip(v)
           r == add_tags(papers, tags, paper_tags, prompt.arxiv_id, text)
       IN  IF text = << >>
           THEN /\ last' = Report("tag_input", prompt.arxiv_id, -1, "NoTags", << >>, << >>, 0)
                /\ UNCHANGED << tags, paper_tags, table >>
           ELSE /\ tags' = r.tags
                /\ paper_tags' = r.paper_tags
                /\ table' \in IF r.reloads
                              THEN LoadTables(papers, r.tags, r.paper_tags, filter_query, filter_tag)
                              ELSE {table}
                /\ last' = Report("tag_input", prompt.arxiv_id, -1, r.msg, << >>, << text >>, 0)
    /\ prompt' = NoPrompt
    /\ UNCHANGED << papers, running, filter_query, filter_tag, search_results >>

\* on_input_submitted, id "tag_modification": set_tags unless the value is
\* blank; the value is what the user typed or the tags the prompt came with
SubmitTagModification(v) ==
    /\ running
    /\ prompt.id = "tag_modification"
    /\ LET text == Strip(v)
           r == set_tags(papers, tags, paper_tags, prompt.arxiv_id, text)
       IN  IF text = << >>
           THEN /\ last' = Report("tag_modification", prompt.arxiv_id, -1, "NoTags", << >>, << >>, 0)
                /\ UNCHANGED << tags, paper_tags, table >>
           ELSE /\ tags' = r.tags
                /\ paper_tags' = r.paper_tags
                /\ table' \in IF r.reloads
                              THEN LoadTables(papers, r.tags, r.paper_tags, filter_query, filter_tag)
                              ELSE {table}
                /\ last' = Report("tag_modification", prompt.arxiv_id, -1, r.msg, << >>, << text >>, 0)
    /\ prompt' = NoPrompt
    /\ UNCHANGED << papers, running, filter_query, filter_tag, search_results >>

\* on_input_submitted, id "confirm_remove": remove_paper on y or yes
SubmitConfirmRemove(v) ==
    /\ running
    /\ prompt.id = "confirm_remove"
    /\ IF SaysYes(v)
       THEN LET r == app_remove_paper(papers, paper_tags, prompt.arxiv_id)
            IN  /\ papers' = r.papers
                /\ paper_tags' = r.paper_tags
                /\ table' \in LoadTables(r.papers, tags, r.paper_tags, filter_query, filter_tag)
                /\ last' = Report("remove_paper", prompt.arxiv_id, -1, "Removed", << >>, << >>, 0)
       ELSE /\ last' = Report("remove_paper", prompt.arxiv_id, -1, "Cancelled", << >>, << >>, 0)
            /\ UNCHANGED << papers, paper_tags, table >>
    /\ prompt' = NoPrompt
    /\ UNCHANGED << tags, running, filter_query, filter_tag, search_results >>

\* BabelApp.on_input_submitted
on_input_submitted ==
    \/ \E v \in AddInputs : SubmitAdd(v)
    \/ \E v \in TagInputs : SubmitTagInput(v)
    \/ \E v \in TagInputs : SubmitTagModification(v)
    \/ SubmitTagModification(prompt.value)
    \/ \E v \in ConfirmInputs : SubmitConfirmRemove(v)

\* BabelApp.action_edit_tags, the cursor on row r of the table
action_edit_tags(r) ==
    /\ Idle
    /\ r \in 1..Len(table)
    /\ prompt' = [id |-> "tag_modification", arxiv_id |-> table[r].aid,
                  value |-> CurrentTags(papers, tags, paper_tags, table[r].aid)]
    /\ last' = Report("action_edit_tags", table[r].aid, 0, "", << >>, << >>, 0)
    /\ UNCHANGED << store, running, filter_query, filter_tag, table, search_results >>

\* BabelApp.action_remove_paper, the cursor on row r of the table
action_remove_paper(r) ==
    /\ Idle
    /\ r \in 1..Len(table)
    /\ prompt' = [id |-> "confirm_remove", arxiv_id |-> table[r].aid, value |-> << >>]
    /\ last' = Report("action_remove_paper", table[r].aid, -1, "", << >>, << >>, 0)
    /\ UNCHANGED << store, running, filter_query, filter_tag, table, search_results >>

\* load_table with the attributes filter_query and filter_tag holding fq
\* and ft (on_mount leaves both None)
load_table(fq, ft) ==
    /\ Idle
    /\ << fq, ft >> # << filter_query, filter_tag >>
    /\ filter_query' = fq
    /\ filter_tag' = ft
    /\ table' \in LoadTables(papers, tags, paper_tags, fq, ft)
    /\ last' = Report("load_table", None, -1, "", << >>, << >>, 0)
    /\ UNCHANGED << store, running, search_results, prompt >>

(***************************************************************************)
(* The command line, run while the dashboard is not.                       *)
(***************************************************************************)

\* what add_paper of the command line reports, over its inputs: it reads
\* nothing of the store
CliAddReports ==
    {LET r == cli_add_paper(arg, choice)
     IN  Report("cli_add_paper", r.aid, -1, r.msg, r.calls, r.cands, r.pick) :
        arg \in AddInputs, choice \in ChoiceInputs}

\* cli: -a arg
CliAddPaper ==
    /\ ~running
    /\ last' \in CliAddReports
    /\ UNCHANGED << store, running, filter_query, filter_tag, table, search_results, prompt >>

\* cli: -rm arg; the SELECT has no ORDER BY, its rows come in some order
CliRemovePaper(arg) ==
    /\ ~running
    /\ \E results \in Perms(TitleMatches(papers, arg)) :
       \E choice \in ChoiceInputs, confirm \in ConfirmInputs :
          LET pid == cli_remove_pick(results, choice, confirm)
          IN  /\ paper_tags' = IF pid = 0 THEN paper_tags ELSE DeletePaperTags(paper_tags, pid)
              /\ papers' = IF pid = 0 THEN papers ELSE DeletePaperById(papers, pid)
              /\ last' = Report("cli_remove_paper",
                                IF pid = 0 THEN None ELSE (CHOOSE p \in papers : p.id = pid).arxiv_id,
                                -1, IF pid = 0 THEN "Cancelled" ELSE "Removed", << >>, << >>, 0)
    /\ UNCHANGED << tags, running, filter_query, filter_tag, table, search_results, prompt >>

\* cli: -st tag; the SELECT has no ORDER BY, its rows come in some order.
\* The report lists the arxiv_id of the paper of each row printed.
CliSearchTag(tag) ==
    /\ ~running
    /\ \E rows \in Perms(search_tag(papers, tags, paper_tags, tag)) :
          last' = Report("search_tag", tag, -1,
                         IF rows = << >> THEN "NotFound" ELSE "Listed",
                         << >>, [i \in 1..Len(rows) |-> rows[i].arxiv_id], 0)
    /\ UNCHANGED << store, running, filter_query, filter_tag, table, search_results, prompt >>

Next ==
    \/ on_mount
    \/ action_quit
    \/ action_add_paper
    \/ on_input_submitted
    \/ \E k \in 1..max_results : on_list_view_selected(k)
    \/ \E r \in 1..MaxPaperId : action_edit_tags(r)
    \/ \E r \in 1..MaxPaperId : action_remove_paper(r)
    \/ CliAddPaper
    \/ \E arg \in RemoveInputs : CliRemovePaper(arg)
    \/ \E tag \in TagFilters : CliSearchTag(tag)

Spec == Init /\ [][Next]_vars

\* the dashboard with its two filter attributes in use
NextFiltered ==
    \/ Next
    \/ \E fq \in TextFilters \cup {None}, ft \in TagFilters \cup {None} : load_table(fq, ft)

SpecFiltered == Init /\ [][NextFiltered]_vars

(***************************************************************************)
(* Properties.                                                             *)
(***************************************************************************)

\* the names of the tags associated with the paper stored under aid
AssocNames(ps, tg, pt, aid) ==
    {t.name : t \in {t \in tg : \E a \in pt, p \in ps :
                        a.tag_id = t.id /\ a.paper_id = p.id /\ p.arxiv_id = aid}}

\* the non-empty trimmed names of a comma-separated text, as a set
NamesIn(text) ==
    LET parts == SplitBy(text, << "," >>)
    IN  {Strip(parts[i]) : i \in 1..Len(parts)} \ {<< >>}

Stored(ps, aid) == \E r \in ps : r.arxiv_id = aid

\* the handler that ran last called add_paper_internal
RanInsert(l) == l.op \in {"add_paper", "list_selected"} /\ l.ret \in {0, 3}

\* the identifier of the record the remote repository returns for aid
RecordId(aid) == LookupById(aid)[1].short_id

\* C1, first half: no two rows of papers have the same identifier
C1_OneRowPerId == \A r1, r2 \in papers : r1.arxiv_id = r2.arxiv_id => r1 = r2

\* C1, second half: an insert of a record whose identifier is stored reports
\* AlreadyExists (return code 3) and changes no table
C1_DuplicateStep ==
    (RanInsert(last') /\ LookupById(last'.aid) # << >> /\ Stored(papers, RecordId(last'.aid)))
        => (last'.ret = 3 /\ last'.msg = "AlreadyExists" /\ store' = store)

\* C1: inserting a record whose identifier is already stored reports
\* AlreadyExists and leaves the store unchanged, and after any sequence of
\* inserts the papers table holds one row per identifier
C1_InsertDuplicate == [](C1_OneRowPerId) /\ [][C1_DuplicateStep]_vars

\* C1 witness: an insert was refused by the UNIQUE constraint after the check
\* by the requested identifier had missed the stored row
C1_Witness ==
    /\ RanInsert(last)
    /\ last.ret = 3
    /\ "id" \in {last.calls[i] : i \in 1..Len(last.calls)}
    /\ Stored(papers, RecordId(last.aid))

\* an operation that modified tags or removed a paper has just completed
TagsOrPaperChanged ==
    \/ last.op \in {"tag_input", "tag_modification"} /\ last.msg = "TagsAdded"
    \/ last.op \in {"remove_paper", "cli_remove_paper"} /\ last.msg = "Removed"

\* C2: after every completed operation that modifies tags or removes a paper
\* every row of the tag table is referenced by at least one association
C2_NoOrphanTag ==
    TagsOrPaperChanged => \A t \in tags : \E a \in paper_tags : a.tag_id = t.id

\* C3: replaceTags(P, T) leaves P associated with exactly the non-empty
\* trimmed names of T and leaves the associations of every other paper
\* unchanged
C3_ReplaceExact ==
    [][(last'.op = "tag_modification" /\ last'.msg = "TagsAdded")
          => /\ AssocNames(papers', tags', paper_tags', last'.aid) = NamesIn(last'.cands[1])
             /\ papers' = papers
             /\ \A p \in papers : p.arxiv_id # last'.aid =>
                   /\ AssocNames(papers', tags', paper_tags', p.arxiv_id)
                         = AssocNames(papers, tags, paper_tags, p.arxiv_id)
                   /\ {a \in paper_tags' : a.paper_id = p.id} = {a \in paper_tags : a.paper_id = p.id}]_vars

\* C3 witness: tags were replaced on one paper, another paper keeps tags, and
\* a tag the replaced paper does not carry is in the tag table
C3_Witness ==
    /\ last.op = "tag_modification"
    /\ last.msg = "TagsAdded"
    /\ AssocNames(papers, tags, paper_tags, last.aid) = {<< "A" >>}
    /\ \E p \in papers : p.arxiv_id # last.aid /\ AssocNames(papers, tags, paper_tags, p.arxiv_id) # {}
    /\ \E t \in tags : t.name = << "b" >>

\* C4: attachTags(P, T) is idempotent: on every store the program reaches,
\* for every stored paper and every tag text, a second application changes
\* neither the tag table nor the associations
C4_AttachIdempotent ==
    \A p \in papers : \A text \in TagInputs :
        LET once == add_tags(papers, tags, paper_tags, p.arxiv_id, text)
            twice == add_tags(papers, once.tags, once.paper_tags, p.arxiv_id, text)
        IN  twice.tags = once.tags /\ twice.paper_tags = once.paper_tags

\* C4 witness: tags were attached from a text that repeats a name, and the
\* paper carries that name once
C4_Witness ==
    /\ last.op = "tag_input"
    /\ last.msg = "TagsAdded"
    /\ last.cands = << << "a", " ", ",", ",", "a" >> >>
    /\ AssocNames(papers, tags, paper_tags, last.aid) = {<< "a" >>}
    /\ Cardinality({a \in paper_tags : \E p \in papers : p.arxiv_id = last.aid /\ a.paper_id = p.id}) = 1

\* the identifiers removePaper is tried on
ProbeIds == {Catalog[i].short_id : i \in 1..Len(Catalog)} \cup {BaseId(Catalog[i].short_id) : i \in 1..Len(Catalog)}

\* C5, the step: a removal leaves no row with the identifier and no
\* association of the removed row, and every other row and association
C5_RemoveStep ==
    (last'.op \in {"remove_paper", "cli_remove_paper"} /\ last'.msg = "Removed")
        => LET gone == {r \in papers : r.arxiv_id = last'.aid}
           IN  /\ gone # {}
               /\ papers' = papers \ gone
               /\ paper_tags' = {a \in paper_tags : \A r \in gone : a.paper_id # r.id}
               /\ tags' = tags

\* C5, at every store: removePaper on an identifier that is not stored
\* changes nothing, and no association references a paper that is not there
C5_NoDangling ==
    /\ \A a \in paper_tags : \E r \in papers : r.id = a.paper_id
    /\ \A aid \in ProbeIds : ~Stored(papers, aid) =>
          app_remove_paper(papers, paper_tags, aid) = [papers |-> papers, paper_tags |-> paper_tags]

\* C5: removePaper deletes the paper and its associations and nothing else,
\* does nothing for an identifier that is not stored, and no association
\* ever references a paper that no longer exists
C5_RemoveCascades == [](C5_NoDangling) /\ [][C5_RemoveStep]_vars

\* C5 witness: a paper that had tags was removed while another paper with
\* tags stays
C5_Witness ==
    /\ last.op = "remove_paper"
    /\ last.msg = "Removed"
    /\ ~Stored(papers, last.aid)
    /\ paper_tags # {}
    /\ \E t \in tags : \A a \in paper_tags : a.tag_id # t.id

\* the handler that ran last made a title search first
TitleSearched(l) == l.calls # << >> /\ l.calls[1] = "title"

\* C6: in the disambiguation flow over n > 1 candidates, the selection of
\* index k in 1..n makes the k-th candidate the record inserted into the
\* store, and any other selection cancels and inserts no row
C6_KthInserted ==
    [][(last'.op \in {"cli_add_paper", "list_selected"} /\ Len(last'.cands) > 1)
          => IF last'.pick \in 1..Len(last'.cands)
             THEN Stored(papers', last'.cands[last'.pick])
             ELSE papers' = papers]_vars

\* C7: after a title search, exactly one candidate is accepted and inserted
\* at once with no list to choose from, more than one candidate waits in the
\* list for a selection, and not-found inserts nothing
C7_ThreeStates ==
    [][(last'.op = "add_paper" /\ TitleSearched(last'))
          => LET n == Len(last'.cands)
             IN  /\ n = 1 => (search_results' = << >> /\ Stored(papers', last'.cands[1]))
                 /\ n > 1 => (search_results' = last'.cands /\ papers' = papers)
                 /\ (n = 0 /\ last'.msg = "NotFound") => (search_results' = << >> /\ papers' = papers)]_vars

\* C8: when the title search returns nothing, the flow makes exactly one
\* further remote call, an identifier lookup with the normalized input; a
\* record it returns is inserted, and when it returns nothing the flow ends
\* in NotFound with the store unchanged
C8_RetryById ==
    [][(last'.op \in {"add_paper", "cli_add_paper"} /\ TitleSearched(last') /\ last'.cands = << >>)
          => /\ Len(last'.calls) >= 2
             /\ last'.calls[2] = "id"
             /\ LookupById(last'.aid) = << >> =>
                   (last'.msg = "NotFound" /\ last'.calls = << "title", "id" >> /\ store' = store)
             /\ LookupById(last'.aid) # << >> => Stored(papers', RecordId(last'.aid))]_vars

\* the publication date of the record with this identifier
DateOf(aid) == (CHOOSE e \in {Catalog[i] : i \in 1..Len(Catalog)} : e.short_id = aid).published

\* d1 is not later than d2
NotLater(d1, d2) ==
    \/ d1.y < d2.y
    \/ d1.y = d2.y /\ d1.m < d2.m
    \/ d1.y = d2.y /\ d1.m = d2.m /\ d1.d <= d2.d

\* s contains q, letters compared without case
ContainsFold(s, q) == Occurrences(LowerStr(s), LowerStr(q)) # {}

\* the paper has an association with a tag whose name is exactly g
HasTagNamed(p, g) ==
    \E a \in paper_tags, t \in tags : a.paper_id = p.id /\ a.tag_id = t.id /\ t.name = g

\* the papers listFiltered is to return for the filters in force
Listed ==
    {p \in papers :
        /\ Truthy(filter_tag) => HasTagNamed(p, filter_tag)
        /\ Truthy(filter_query) =>
              (ContainsFold(p.title, filter_query) \/ ContainsFold(p.authors, filter_query))}

\* C9 in the dashboard: the table holds exactly the papers that have the
\* filter tag, by exact name, and that match the text filter on title or
\* author when there is one, each once, the later publication date first
C9_LoadTable ==
    running =>
        /\ {table[i].aid : i \in 1..Len(table)} = {p.arxiv_id : p \in Listed}
        /\ Len(table) = Cardinality(Listed)
        /\ \A i, j \in 1..Len(table) : i < j => NotLater(DateOf(table[j].aid), DateOf(table[i].aid))

\* C9 on the command line: -st g prints exactly the papers that have a tag
\* named g, each once, the later publication date first
C9_SearchTagStep ==
    last'.op = "search_tag"
        => LET rows == last'.cands
           IN  /\ {rows[i] : i \in 1..Len(rows)} = {p.arxiv_id : p \in {p \in papers : HasTagNamed(p, last'.aid)}}
               /\ \A i, j \in 1..Len(rows) : i < j => rows[i] # rows[j]
               /\ \A i, j \in 1..Len(rows) : i < j => NotLater(DateOf(rows[j]), DateOf(rows[i]))

\* C9: a listing filtered by tag g holds exactly the stored papers that have
\* an association with a tag named exactly g, restricted by the text filter
\* on title or author when one is given as well, in descending order of
\* publication date
C9_ListFiltered == [](C9_LoadTable) /\ [][C9_SearchTagStep]_vars

\* both filters are set, one paper is listed, and a second paper is left out
\* whose tag differs from the filter only in case
LoadTableFilteredReached ==
    /\ running
    /\ filter_tag = << "a" >>
    /\ Truthy(filter_query)
    /\ Len(table) = 1
    /\ \E p \in papers : HasTagNamed(p, << "A" >>) /\ p.arxiv_id # table[1].aid

RECURSIVE SortedNames(_)
\* the names of a set in alphabetical order
SortedNames(S) ==
    IF S = {} THEN << >>
    ELSE LET n == CHOOSE x \in S : \A y \in S : x = y \/ TextLess(x, y)
         IN  << n >> \o SortedNames(S \ {n})

\* C10: every row of the listing carries all the tags of its paper, joined
\* by commas in alphabetical order, whatever the filters
C10_AllTagsSorted ==
    running =>
        \A i \in 1..Len(table) :
            table[i].tags = JoinBy(SortedNames(AssocNames(papers, tags, paper_tags, table[i].aid)), CommaSpace)

\* C11, the step: a tag prompt submitted for an identifier that is not
\* stored reports NoSuchPaper and changes no table
C11_UnknownStep ==
    (last'.op \in {"tag_input", "tag_modification"} /\ last'.cands # << >> /\ ~Stored(papers, last'.aid))
        => (last'.msg = "NoSuchPaper" /\ store' = store)

\* C11, at every store: attachTags and replaceTags on an identifier that is
\* not stored report NoSuchPaper and return the tables as they were
C11_UnknownId ==
    \A aid \in ProbeIds : \A text \in TagInputs :
        ~Stored(papers, aid) =>
            /\ add_tags(papers, tags, paper_tags, aid, text)
                  = [tags |-> tags, paper_tags |-> paper_tags, msg |-> "NoSuchPaper", reloads |-> FALSE]
            /\ set_tags(papers, tags, paper_tags, aid, text)
                  = [tags |-> tags, paper_tags |-> paper_tags, msg |-> "NoSuchPaper", reloads |-> FALSE]

\* C11: attachTags and replaceTags with an identifier that is not in the
\* store report NoSuchPaper and leave papers, tags and associations as they
\* were: no tag row is created, no association of another paper is deleted
C11_NoSuchPaper == [](C11_UnknownId) /\ [][C11_UnknownStep]_vars

\* C11 witness: tags naming a tag that does not exist were submitted for an
\* identifier that is not stored, while another paper has tags
C11_Witness ==
    /\ last.op = "tag_input"
    /\ last.msg = "NoSuchPaper"
    /\ ~Stored(papers, last.aid)
    /\ NamesIn(last.cands[1]) \ {t.name : t \in tags} # {}
    /\ paper_tags # {}

(***************************************************************************)
(* The normalizers and add_paper on given texts: the text is the value of  *)
(* the add prompt, and each operation reports what it made of it.          *)
(***************************************************************************)

\* identifiers in both styles, with and without a version
GivenIds ==
    { << "2", "3", "0", "1", ".", "0", "0", "0", "0", "1" >>, << "2", "3", "0", "1", ".", "0", "0", "0", "0", "1", "v", "2" >>,
      << "h", "e", "p", "-", "t", "h", "/", "9", "9", "0", "1", "0", "0", "1" >>, << "h", "e", "p", "-", "t", "h", "/", "9", "9", "0", "1", "0", "0", "1", "v", "1" >> }

Schemes == { << >>, << "h", "t", "t", "p", "s", ":", "/", "/" >>, << "h", "t", "t", "p", ":", "/", "/", "w", "w", "w", "." >> }

\* the identifiers as abstract-page URLs and as PDF URLs
GivenUrls ==
    {sch \o host \o id \o suf :
        sch \in Schemes, host \in {UrlAbs, UrlPdf}, id \in GivenIds, suf \in {<< >>, DotPdf}}

\* titles, some with a part that looks like an identifier
GivenTitles ==
    { << "A", " ", "S", "t", "u", "d", "y" >>, << "x", "y", "z" >>,
      << "a", "t", "t", "e", "n", "t", "i", "o", "n", " ", "i", "s", " ", "a", "l", "l", " ", "y", "o", "u", " ", "n", "e", "e", "d" >>,
      << "S", "t", "u", "d", "y", " ", "o", "f", " ", "h", "e", "p", "-", "t", "h", "/", "9", "9", "0", "1", "0", "0", "1" >>,
      << "h", "e", "p", "-", "t", "h", "/", "9", "9", "0", "1", "0", "0", "1", " ", "r", "e", "v", "i", "s", "i", "t", "e", "d" >>,
      << "2", "3", "0", "1", ".", "0", "0", "0", "0", "1", " ", "a", "n", "d", " ", "m", "o", "r", "e" >>,
      << "S", "t", "u", "d", "y", " ", "2", "3", "0", "1", ".", "0", "0", "0", "0", "1" >> }

GivenTexts == GivenIds \cup GivenUrls \cup GivenTitles

InitGiven ==
    /\ papers = {}
    /\ tags = {}
    /\ paper_tags = {}
    /\ running = TRUE
    /\ filter_query = None
    /\ filter_tag = None
    /\ table = << >>
    /\ search_results = << >>
    /\ \E v \in GivenTexts : prompt = [id |-> "add", arxiv_id |-> None, value |-> v]
    /\ last = Report("action_add_paper", None, -1, "", << >>, << >>, 0)

\* extract_arxiv_id (module level) on the text
ExtractGiven ==
    /\ prompt.id = "add"
    /\ last' = Report("extract_arxiv_id", extract_arxiv_id(prompt.value), -1, "", << >>, << >>, 0)
    /\ UNCHANGED << store, running, filter_query, filter_tag, table, search_results, prompt >>

\* BabelApp.extract_arxiv_id on the text
AppExtractGiven ==
    /\ prompt.id = "add"
    /\ last' = Report("BabelApp.extract_arxiv_id", AppExtractArxivId(prompt.value), -1, "", << >>, << >>, 0)
    /\ UNCHANGED << store, running, filter_query, filter_tag, table, search_results, prompt >>

NextGiven ==
    \/ ExtractGiven
    \/ AppExtractGiven
    \/ SubmitAdd(prompt.value)

SpecGiven == InitGiven /\ [][NextGiven]_vars

\* the text holds an abstract-page or PDF URL prefix
IsUrl(u) == Occurrences(u, UrlAbs) \cup Occurrences(u, UrlPdf) # {}

\* what is left of a URL without its prefix and without a final .pdf
UrlBare(u) ==
    LET from == MinOf(Occurrences(u, UrlAbs) \cup Occurrences(u, UrlPdf)) + Len(UrlAbs)
        rest == SubSeq(u, from, Len(u))
    IN  IF EndsWith(rest, DotPdf) THEN SubSeq(rest, 1, Len(rest) - Len(DotPdf)) ELSE rest

\* C12: given an abstract-page or PDF URL, the module-level normalizer and
\* the normalizer of the dashboard both return the bare identifier, the URL
\* prefix and a final .pdf removed
C12_UrlToBareId ==
    [][(last'.op \in {"extract_arxiv_id", "BabelApp.extract_arxiv_id"} /\ IsUrl(prompt.value))
          => last'.aid = UrlBare(prompt.value)]_vars

\* v and one or more digits
IsVersion(x) == Len(x) >= 2 /\ x[1] = "v" /\ \A k \in 2..Len(x) : IsDigit(x[k])

\* NNNN.NNNN or NNNN.NNNNN, with or without a version
NewStyle(x) ==
    \E n \in {4, 5} :
        /\ Len(x) >= 5 + n
        /\ \A k \in 1..4 : IsDigit(x[k])
        /\ x[5] = "."
        /\ \A k \in 6..(5 + n) : IsDigit(x[k])
        /\ Len(x) = 5 + n \/ IsVersion(SubSeq(x, 6 + n, Len(x)))

\* category/NNNNNNN, with or without a version
Legacy(x) ==
    \E q \in 2..Len(x) :
        /\ x[q] = "/"
        /\ \A k \in 1..(q - 1) : IsLower(x[k]) \/ IsUpper(x[k]) \/ x[k] \in {"-", "."}
        /\ Len(x) >= q + 7
        /\ \A k \in (q + 1)..(q + 7) : IsDigit(x[k])
        /\ Len(x) = q + 7 \/ IsVersion(SubSeq(x, q + 8, Len(x)))

\* the trimmed text, a URL reduced to what follows its prefix
Normalized(s) == IF IsUrl(Strip(s)) THEN UrlBare(Strip(s)) ELSE Strip(s)

\* C13: a text whose normalized form has the shape of an identifier goes to
\* the lookup by id with no title search, and every other text, a title
\* that begins or ends with an identifier included, goes to the title search
C13_Classified ==
    [][last'.op = "add_paper"
          => IF NewStyle(Normalized(prompt.value)) \/ Legacy(Normalized(prompt.value))
             THEN last'.calls = << "id" >>
             ELSE TitleSearched(last')]_vars

\* C13, the half that concerns titles: a text that is not an identifier and
\* not a URL goes to the title search
TitlesToTitleSearch ==
    [][(last'.op = "add_paper" /\ prompt.value \in GivenTitles) => TitleSearched(last')]_vars

\* C14: when add_paper_internal inserts a row, the tag prompt it opens
\* carries the identifier the row was stored under, and tags submitted at a
\* tag prompt are attached to that paper and never end in NoSuchPaper
C14_PromptNamesStoredRow ==
    [][/\ (RanInsert(last') /\ last'.ret = 0)
             => (prompt'.id = "tag_input" /\ Stored(papers', prompt'.arxiv_id))
       /\ (last'.op = "tag_input" /\ last'.cands # << >>)
             => /\ last'.msg = "TagsAdded"
                /\ NamesIn(last'.cands[1]) \subseteq AssocNames(papers', tags', paper_tags', last'.aid)]_vars

====
